---------------------------- MODULE Spec2Model ----------------------------
(***************************************************************************)
(* Model of the audit pipeline of automaton-auditor: the LangGraph graph   *)
(* of src/graph.py (Detectives -> EvidenceAggregator -> Prosecutor |       *)
(* Defense | TechLead -> ChiefJustice), the three collectors of            *)
(* src/nodes/detectives.py, the opinion generators of src/nodes/judges.py  *)
(* and the verdict synthesis of src/nodes/justice.py.                      *)
(*                                                                         *)
(* Scope.  AgentState is modelled as the attribute record the nodes use    *)
(* (repo_url, pdf_path, rubric_dimensions, evidences, flat_evidences,      *)
(* opinions, final_report).  A record carries the fields its constructor   *)
(* call assigns.  The JudicialOpinion schema's required fields are checked *)
(* where review_evidence builds its fallback.  The Evidence schema's        *)
(* required id, which no collector path supplies, is not checked: with it  *)
(* no collector returns and no later stage can be studied.  The graph      *)
(* engine is modelled by its superstep rule: the tasks of one step run concurrently, *)
(* their writes are applied through the channel reducers when all of them  *)
(* have returned, and an exception in a task aborts the run.               *)
(***************************************************************************)
EXTENDS Integers, Sequences, FiniteSets, TLC

(***************************************************************************)
(* Bounds                                                                  *)
(***************************************************************************)
\* the longest rubric a pipeline run is configured with
MaxDims == 2
\* the longest rubric and the longest opinions sequence the Aggregator is given
\* when run on its own
MaxAggDims == 3
MaxOps == 3

(***************************************************************************)
(* Values                                                                  *)
(***************************************************************************)
None == "None"

Collectors == {"RepoInvestigator", "DocAnalyst", "VisionInspector"}

\* detectives.py:231-233, the registration order of the buckets
BucketOrder == <<"repo_investigator", "doc_analyst", "vision_inspector">>

Buckets == {BucketOrder[i] : i \in 1..Len(BucketOrder)}

\* detectives.py:215-219 zipped with 231-233: the bucket of each collector
BucketOf(c) ==
    CASE c = "RepoInvestigator" -> "repo_investigator"
      [] c = "DocAnalyst"       -> "doc_analyst"
      [] c = "VisionInspector"  -> "vision_inspector"

CollectorOf(k) == CHOOSE c \in Collectors : BucketOf(c) = k

Stances == {"Prosecutor", "Defense", "TechLead"}

DimIds == <<"D1", "D2", "D3", "D4", "D5">>

\* the rubrics a run may be configured with: the first n dimension ids
Rubrics == {SubSeq(DimIds, 1, n) : n \in 0..MaxDims}

Evidence(g, f, loc, r) ==
    [goal |-> g, found |-> f, location |-> loc, rationale |-> r]

(***************************************************************************)
(* The external collaborators of one run: what the repository, document    *)
(* and configuration calls answer.                                         *)
(***************************************************************************)
RepoEnvs ==
    {[clone |-> "fail", history |-> "fail", scan |-> "fail"]}
    \cup [clone : {"ok"},
          history : {"fail", "empty", "commits"},
          scan : {"fail", "found"}]

DocEnvs ==
    {[pdf_exists |-> FALSE, hits |-> FALSE, paths |-> FALSE]}
    \cup [pdf_exists : {TRUE}, hits : BOOLEAN, paths : BOOLEAN]

(***************************************************************************)
(* Collectors: the sequence each collect_evidence returns                  *)
(***************************************************************************)
\* RepoInvestigator.collect_evidence
RepoEvidence(url, e) ==
    IF url = None
    THEN <<Evidence("git_forensic_analysis", FALSE, "",
                    "No repo_url provided to detective")>>
    ELSE IF e.clone = "fail"
    THEN <<Evidence("git_forensic_analysis", FALSE, "repo_url", "Clone failed")>>
    ELSE (IF e.history = "fail"
          THEN <<Evidence("git_forensic_analysis", FALSE, "repo_path",
                          "Failed to extract git history")>>
          ELSE <<>>)
         \o <<Evidence("git_forensic_analysis", e.history = "commits", "repo_path",
                       "Extracted git log; >3 commits indicate activity"),
              Evidence("graph_orchestration", e.scan = "found", "repo_path",
                       "AST scan for StateGraph and add_edge calls")>>

\* DocAnalyst.collect_evidence
DocEvidence(pdf, e) ==
    IF pdf = None
    THEN <<Evidence("doc_parsing", FALSE, "", "No pdf_path provided to detective")>>
    ELSE IF ~e.pdf_exists
    THEN <<Evidence("doc_parsing", FALSE, "pdf_path", "PDF not found")>>
    ELSE <<Evidence("theoretical_depth", e.hits, "pdf_path",
                    "Searched report chunks for key architecture terms"),
           Evidence("report_file_paths", e.paths, "pdf_path",
                    "Extracted likely file paths mentioned in report")>>

\* VisionInspector.collect_evidence
VisionEvidence(images) ==
    IF ~images
    THEN <<Evidence("vision_inspection", FALSE, "image_dir",
                    "No images found in standard location; vision inspection skipped")>>
    ELSE <<Evidence("vision_inspection", TRUE, "image_dir",
                    "Found image(s) and performed placeholder analysis")>>


(***************************************************************************)
(* Shared state (state.py, AgentState) and the position of every task      *)
(***************************************************************************)
VARIABLES
    rubric_file,        \* rubric/week2_rubric.json as found when graph.py is imported
    repo_url,           \* input: None or a repository reference
    pdf_path,           \* input: None or a document reference
    rubric_dimensions,  \* the configured dimension ids, in configuration order
    env,                \* what the external collaborators answer in this run
    pc,                 \* the graph's position
    dst,                \* per collector: "pending" | "done"
    results,            \* per collector: the sequence collect_evidence returned
    writes,             \* the (collector, key) assignments made inside collect_evidence
    evidences,          \* AgentState.evidences: bucket -> sequence of Evidence
    route,              \* what route_after_detectives returned ("none" before it ran)
    flat_evidences,     \* AgentState.flat_evidences
    jst,                \* per generator node: "idle" | "ready" | "plain" | "done",
                        \* or "raised" | "fallback_raised" when an exception left it
    attempts,           \* per generator node: completion-service calls made
    returned,           \* the generator nodes' writes, in the order they returned
    received,           \* per generator node: <<>>, or <<evidence sequence>> once
                        \* review_evidence was called with it
    serial_pc,          \* run_judges: 0 when not called, else the position in its
                        \* judges list (4 when the loop is over)
    serial_opinions,    \* run_judges: the opinions it appended, in order
    opinions,           \* AgentState.opinions
    chief_starts,       \* how many times chief_justice_node was entered
    final_report        \* AgentState.final_report: <<>> until written, then <<report>>

vars == <<rubric_file, repo_url, pdf_path, rubric_dimensions, env, pc, dst, results,
          writes, evidences, route, flat_evidences, jst, attempts, returned, received,
          serial_pc, serial_opinions, opinions, chief_starts, final_report>>

inputs == <<rubric_file, repo_url, pdf_path, rubric_dimensions, env>>
collector_vars == <<dst, results, writes>>
judge_vars == <<jst, attempts, returned, received>>
serial_vars == <<serial_pc, serial_opinions>>

EmptyMap == [k \in {} |-> <<>>]

\* d[k] = v  (dict item assignment)
SetItem(d, k, v) == [x \in DOMAIN d \cup {k} |-> IF x = k THEN v ELSE d[x]]

\* operator.ior, the reducer of AgentState.evidences
DictIor(d, u) == [x \in DOMAIN d \cup DOMAIN u |-> IF x \in DOMAIN u THEN u[x] ELSE d[x]]

\* Mutant of ListAdd: the channel keeps the last write instead of appending
ListAdd_LastWriteWins(a, b) == IF b = <<>> THEN a ELSE <<b[Len(b)]>>

\* operator.add, the reducer of AgentState.opinions
ListAdd(a, b) == a \o b

RECURSIVE SumLen(_, _)
SumLen(d, ks) ==
    IF ks = {} THEN 0
    ELSE LET k == CHOOSE x \in ks : TRUE IN Len(d[k]) + SumLen(d, ks \ {k})

\* sum(len(v) for v in state.evidences.values())
TotalEvidence(d) == SumLen(d, DOMAIN d)

RECURSIVE FlattenFrom(_, _)
FlattenFrom(d, i) ==
    IF i > Len(BucketOrder) THEN <<>>
    ELSE (IF BucketOrder[i] \in DOMAIN d THEN d[BucketOrder[i]] ELSE <<>>)
         \o FlattenFrom(d, i + 1)

\* Mutant of Flatten: the buckets are taken in sorted key order
Flatten_SortedKeys(d) ==
    (IF "doc_analyst" \in DOMAIN d THEN d["doc_analyst"] ELSE <<>>)
    \o (IF "repo_investigator" \in DOMAIN d THEN d["repo_investigator"] ELSE <<>>)
    \o (IF "vision_inspector" \in DOMAIN d THEN d["vision_inspector"] ELSE <<>>)

\* [ev for bucket in state.evidences.values() for ev in bucket]: the buckets in
\* the insertion order of their keys, which run_detectives leaves as BucketOrder
Flatten(d) == FlattenFrom(d, 1)

\* What graph.py finds at RUBRIC_FILE when it is imported: no file, a file
\* that json.load or the RubricDimension comprehension rejects, a JSON object
\* without the key "dimensions", or a JSON object with a list of dimensions
RubricFiles ==
    [kind : {"missing", "malformed", "no_dimensions"}, dimensions : {<<>>}]
    \cup [kind : {"dimensions"}, dimensions : Rubrics]

\* rubric_data.get("dimensions", [])
LoadedDimensions(file) ==
    IF file.kind = "dimensions" THEN file.dimensions ELSE <<>>

\* RUBRIC_FILE.open / json.load / the comprehension raise
LoadRaises(file) == file.kind \in {"missing", "malformed"}

Init ==
    /\ rubric_file \in RubricFiles
    /\ repo_url \in {None, "repo"}
    /\ pdf_path \in {None, "report.pdf"}
    /\ rubric_dimensions = <<>>
    /\ env \in [repo : RepoEnvs, doc : DocEnvs, images : BOOLEAN, llm_ok : BOOLEAN]
    /\ repo_url = None => env.repo.clone = "fail"
    /\ pdf_path = None => ~env.doc.pdf_exists
    /\ pc = "import"
    /\ dst = [c \in Collectors |-> "pending"]
    /\ results = [c \in Collectors |-> <<>>]
    /\ writes = {}
    /\ evidences = EmptyMap
    /\ route = "none"
    /\ flat_evidences = <<>>
    /\ jst = [j \in Stances |-> "idle"]
    /\ attempts = [j \in Stances |-> 0]
    /\ returned = <<>>
    /\ received = [j \in Stances |-> <<>>]
    /\ serial_pc = 0
    /\ serial_opinions = <<>>
    /\ opinions = <<>>
    /\ chief_starts = 0
    /\ final_report = <<>>

(***************************************************************************)
(* Import of graph.py: the rubric is loaded at module level                *)
(***************************************************************************)
LoadRubric ==
    /\ pc = "import"
    /\ IF LoadRaises(rubric_file)
       THEN /\ pc' = "fatal"
            /\ rubric_dimensions' = rubric_dimensions
       ELSE /\ pc' = "start"
            /\ rubric_dimensions' = LoadedDimensions(rubric_file)
    /\ UNCHANGED <<rubric_file, repo_url, pdf_path, env, serial_vars, collector_vars,
                   evidences, route, flat_evidences, judge_vars, opinions,
                   chief_starts, final_report>>

(***************************************************************************)
(* Stage 1: Detectives                                                     *)
(***************************************************************************)
\* Mutant of DetectivesNode: the collectors run only when both inputs are present
DetectivesNode_BothInputs ==
    /\ pc = "start"
    /\ pc' = IF repo_url # None /\ pdf_path # None THEN "detectives" ELSE "route"
    /\ UNCHANGED <<inputs, serial_vars, collector_vars, evidences, route, flat_evidences,
                   judge_vars, opinions, chief_starts, final_report>>

\* detectives_node: run the collectors only when an input is present
DetectivesNode ==
    /\ pc = "start"
    /\ pc' = IF repo_url # None \/ pdf_path # None THEN "detectives" ELSE "route"
    /\ UNCHANGED <<inputs, serial_vars, collector_vars, evidences, route, flat_evidences,
                   judge_vars, opinions, chief_starts, final_report>>

\* The key a collector assigns inside collect_evidence
RepoWriteKey == "repo_investigator"
DocWriteKey == "repo_investigator"
VisionWriteKey == "repo_investigator"

\* RepoInvestigator returns before assigning its bucket when the clone failed
RepoWrites == repo_url = None \/ env.repo.clone = "ok"

Collect(c, out, key, doesWrite) ==
    /\ pc = "detectives"
    /\ dst[c] = "pending"
    /\ dst' = [dst EXCEPT ![c] = "done"]
    /\ results' = [results EXCEPT ![c] = out]
    /\ writes' = IF doesWrite THEN writes \cup {<<c, key>>} ELSE writes
    /\ evidences' = IF doesWrite THEN SetItem(evidences, key, out) ELSE evidences
    /\ UNCHANGED <<inputs, serial_vars, pc, route, flat_evidences, judge_vars, opinions,
                   chief_starts, final_report>>

CollectRepo ==
    Collect("RepoInvestigator", RepoEvidence(repo_url, env.repo), RepoWriteKey, RepoWrites)

CollectDoc ==
    Collect("DocAnalyst", DocEvidence(pdf_path, env.doc), DocWriteKey, TRUE)

CollectVision ==
    Collect("VisionInspector", VisionEvidence(env.images), VisionWriteKey, TRUE)

\* Mutant of GatherDone: the gather returns with the first collector
GatherDone_FirstCompleted == \E c \in Collectors : dst[c] = "done"

\* asyncio.gather returns when every collector has returned
GatherDone == \A c \in Collectors : dst[c] = "done"

\* Mutant of MergedEvidence: the loop over the three buckets is left out
MergedEvidence_NoBucketLoop(d, res) == DictIor(d, d)

\* run_detectives after the gather: state.evidences[d] = sublist for the three
\* buckets; detectives_node then returns the map through the reducer
MergedEvidence(d, res) ==
    LET Assign(m, i) == SetItem(m, BucketOrder[i], res[CollectorOf(BucketOrder[i])])
    IN  DictIor(d, Assign(Assign(Assign(d, 1), 2), 3))

MergeDetectives ==
    /\ pc = "detectives"
    /\ GatherDone
    /\ evidences' = MergedEvidence(evidences, results)
    /\ pc' = "route"
    /\ UNCHANGED <<inputs, serial_vars, collector_vars, route, flat_evidences, judge_vars,
                   opinions, chief_starts, final_report>>

\* Mutant of RouteTarget: the early exit is never taken
RouteTarget_NoEarlyExit(d) == "EvidenceAggregator"

\* route_after_detectives
RouteTarget(d) == IF TotalEvidence(d) = 0 THEN "END" ELSE "EvidenceAggregator"

RouteAfterDetectives ==
    /\ pc = "route"
    /\ route' = RouteTarget(evidences)
    /\ pc' = IF route' = "END" THEN "end" ELSE "flatten"
    /\ UNCHANGED <<inputs, serial_vars, collector_vars, evidences, flat_evidences, judge_vars,
                   opinions, chief_starts, final_report>>

(***************************************************************************)
(* Stage 2: EvidenceAggregator (flatten)                                   *)
(***************************************************************************)
AggregateEvidenceNode ==
    /\ pc = "flatten"
    /\ flat_evidences' = Flatten(evidences)
    /\ pc' = "judges"
    /\ UNCHANGED <<inputs, serial_vars, collector_vars, evidences, route, judge_vars, opinions,
                   chief_starts, final_report>>

(***************************************************************************)
(* Stage 3: the opinion generators (Prosecutor | Defense | TechLead)        *)
(***************************************************************************)
Opinion(jd, cid, sc, arg, cited) ==
    [judge |-> jd, criterion_id |-> cid, score |-> sc, argument |-> arg,
     cited_evidence |-> cited]

\* judges.py:100,105,110: persona_name of each generator class
PersonaName(node) ==
    CASE node = "Prosecutor" -> "Prosecutor"
      [] node = "Defense"    -> "Defense"
      [] node = "TechLead"   -> "Tech Lead"

\* persona_name.replace(" ", "")
SafeJudgeName(name) == IF name = "Tech Lead" THEN "TechLead" ELSE name

\* rubric_dimensions[0].id if rubric_dimensions else "general_audit"
FirstDim(dims) == IF Len(dims) > 0 THEN dims[1] ELSE "general_audit"

\* The record review_evidence builds in its except branch
Fallback(node, dims) ==
    Opinion(SafeJudgeName(PersonaName(node)), FirstDim(dims), 3, "Technical Limit", <<>>)

\* state.py, JudicialOpinion: the fields declared without a default
RequiredOpinionFields ==
    {"id", "judge", "criterion_id", "score", "argument", "cited_evidence", "confidence"}

\* The keyword arguments of the fallback's constructor call
FallbackFields == {"judge", "criterion_id", "score", "argument", "cited_evidence"}

\* JudicialOpinion(**kwargs) validates: every required field is given, judge is
\* one of the Literal's values and score is within 1..5
Validates(fields, o) ==
    /\ RequiredOpinionFields \subseteq fields
    /\ o.judge \in Stances
    /\ o.score \in 1..5

\* What the completion service may answer a node with when its answer validates
\* as a JudicialOpinion: the judge and criterion_id it writes are its own choice
\* (the prompt's schema names "architecture_audit")
LLMOpinions(node) ==
    {Opinion(node, "D1", 5, "llm", <<"ev">>),
     Opinion("Prosecutor", "architecture_audit", 1, "llm", <<>>)}

\* A generator node returns {"opinions": [opinion]}
NodeReturns(node, o) ==
    /\ jst' = [jst EXCEPT ![node] = "done"]
    /\ returned' = Append(returned, [node |-> node, opinion |-> o])
    /\ pc' = pc

\* The except branch of review_evidence: it builds the fallback and returns it;
\* when the constructor raises, the exception leaves review_evidence and the
\* node, and the run is aborted
ExceptBranch(node) ==
    LET f == Fallback(node, rubric_dimensions)
    IN  IF Validates(FallbackFields, f)
        THEN NodeReturns(node, f)
        ELSE /\ jst' = [jst EXCEPT ![node] = "fallback_raised"]
             /\ returned' = returned
             /\ pc' = "aborted"

\* prosecutor_node / defense_node / tech_lead_node, first line: the constructor
\* calls get_llm, which raises when the provider configuration is unusable
\* Mutant of PassedEvidence: a generator is given only the missing items
PassedEvidence_MissingOnly ==
    LET Missing(e) == ~e.found IN SelectSeq(flat_evidences, Missing)

\* the argument of judge.review_evidence(state.flat_evidences)
PassedEvidence == flat_evidences

JudgeConstruct(node) ==
    /\ pc = "judges"
    /\ jst[node] = "idle"
    /\ IF env.llm_ok
       THEN /\ jst' = [jst EXCEPT ![node] = "ready"]
            /\ received' = [received EXCEPT ![node] = <<PassedEvidence>>]
            /\ pc' = pc
       ELSE /\ jst' = [jst EXCEPT ![node] = "raised"]
            /\ received' = received
            /\ pc' = "aborted"
    /\ UNCHANGED <<inputs, serial_vars, collector_vars, evidences, route, flat_evidences,
                   attempts, returned, opinions, chief_starts, final_report>>

\* review_evidence, step 1: structured_llm.ainvoke(prompt).  Both chat models
\* get_llm can build have with_structured_output, so step 1 is always taken.
\* The answer is a JudicialOpinion, a dict that validates, a dict that does not
\* (the constructor raises), something else (step 2 follows), or an exception.
StructuredOutcomes == {"opinion", "dict", "bad_dict", "other", "raise"}

StructuredCall(node) ==
    /\ pc = "judges"
    /\ jst[node] = "ready"
    /\ attempts' = [attempts EXCEPT ![node] = @ + 1]
    /\ \E outcome \in StructuredOutcomes :
         CASE outcome \in {"opinion", "dict"} ->
                \E o \in LLMOpinions(node) : NodeReturns(node, o)
           [] outcome \in {"bad_dict", "raise"} ->
                ExceptBranch(node)
           [] outcome = "other" ->
                /\ jst' = [jst EXCEPT ![node] = "plain"]
                /\ returned' = returned
                /\ pc' = pc
    /\ UNCHANGED <<inputs, serial_vars, collector_vars, evidences, route, flat_evidences,
                   received, opinions, chief_starts, final_report>>

\* review_evidence, step 2: self.llm.ainvoke(prompt) and model_validate_json
PlainOutcomes == {"valid", "raise"}

PlainCall(node) ==
    /\ pc = "judges"
    /\ jst[node] = "plain"
    /\ attempts' = [attempts EXCEPT ![node] = @ + 1]
    /\ \E outcome \in PlainOutcomes :
         IF outcome = "valid"
         THEN \E o \in LLMOpinions(node) : NodeReturns(node, o)
         ELSE ExceptBranch(node)
    /\ UNCHANGED <<inputs, serial_vars, collector_vars, evidences, route, flat_evidences,
                   received, opinions, chief_starts, final_report>>

\* Mutant of FanInReady: ChiefJustice is scheduled as soon as one generator
\* node has returned
FanInReady_AnyReturned == \E node \in Stances : jst[node] = "done"

\* The three edges into ChiefJustice: the step of the three generator nodes is
\* over when each of them has returned
FanInReady == \A node \in Stances : jst[node] = "done"

RECURSIVE WritesOf(_)
WritesOf(rs) ==
    IF rs = <<>> THEN <<>> ELSE <<Head(rs).opinion>> \o WritesOf(Tail(rs))

\* End of the generators' step: every {"opinions": [opinion]} goes through the
\* reducer, then ChiefJustice is scheduled
JudgesBarrier ==
    /\ pc = "judges"
    /\ FanInReady
    /\ opinions' = ListAdd(opinions, WritesOf(returned))
    /\ pc' = "chief"
    /\ UNCHANGED <<inputs, serial_vars, collector_vars, evidences, route, flat_evidences,
                   judge_vars, chief_starts, final_report>>

(***************************************************************************)
(* Stage 4: ChiefJustice (justice.py)                                      *)
(***************************************************************************)
\* Twice the weight of a stance: weights = {"TechLead": 1.5, others 1.0}
\* Mutant of Weight2: the TechLead's opinion counts double
Weight2_TechLeadDouble(jd) == IF jd = "TechLead" THEN 4 ELSE 2

Weight2(jd) == IF jd = "TechLead" THEN 3 ELSE 2

RECURSIVE WeightedSum2(_)
WeightedSum2(ops) ==
    IF ops = <<>> THEN 0
    ELSE Head(ops).score * Weight2(Head(ops).judge) + WeightedSum2(Tail(ops))

RECURSIVE TotalWeight2(_)
TotalWeight2(ops) ==
    IF ops = <<>> THEN 0 ELSE Weight2(Head(ops).judge) + TotalWeight2(Tail(ops))

\* Mutant of Round: the quotient is truncated
Round_Truncate(n, d) == n \div d

\* Python's round() of n/d for n >= 0, d > 0: to nearest, ties to even
Round(n, d) ==
    LET q == n \div d
        r == n % d
    IN  IF 2 * r < d THEN q
        ELSE IF 2 * r > d THEN q + 1
        ELSE IF q % 2 = 0 THEN q ELSE q + 1

Max2(a, b) == IF a >= b THEN a ELSE b
Min2(a, b) == IF a <= b THEN a ELSE b

\* Mutant of ComputeWeightedScore: no default for an empty selection
ComputeWeightedScore_NoDefault(ops) ==
    IF ops = <<>> THEN 0
    ELSE Max2(1, Min2(5, Round(WeightedSum2(ops), TotalWeight2(ops))))

\* _compute_weighted_score
ComputeWeightedScore(ops) ==
    IF ops = <<>> THEN 1
    ELSE Max2(1, Min2(5, Round(WeightedSum2(ops), TotalWeight2(ops))))

Scores(ops) == {ops[i].score : i \in 1..Len(ops)}
MaxOf(S) == CHOOSE x \in S : \A y \in S : y <= x
MinOf(S) == CHOOSE x \in S : \A y \in S : x <= y

\* next((o for o in opinions if o.judge == jd), None), as a sequence of at most
\* one opinion (empty for None)
FirstBy(ops, jd) ==
    LET I == {i \in 1..Len(ops) : ops[i].judge = jd}
    IN  IF I = {} THEN <<>> ELSE <<ops[MinOf(I)]>>

\* The value of an Optional field: NoValue for None, <<v>> for a value v
NoValue == <<>>

\* Mutant of GenerateDissentAnalysis: the Prosecutor is named also when the
\* two scores are equal
GenerateDissentAnalysis_NotStrict(ops) ==
    IF Len(ops) < 2 THEN NoValue
    ELSE LET spread == MaxOf(Scores(ops)) - MinOf(Scores(ops))
             p == FirstBy(ops, "Prosecutor")
             d == FirstBy(ops, "Defense")
         IN  IF spread >= 2
             THEN <<[spread |-> spread,
                     prosecutor_flagged |->
                         (p # <<>> /\ d # <<>> /\ p[1].score <= d[1].score)]>>
             ELSE NoValue

\* Mutant of GenerateDissentAnalysis: any disagreement counts as dissent
GenerateDissentAnalysis_AnySpread(ops) ==
    IF Len(ops) < 2 THEN NoValue
    ELSE LET spread == MaxOf(Scores(ops)) - MinOf(Scores(ops))
         IN  IF spread >= 1
             THEN <<[spread |-> spread, prosecutor_flagged |-> FALSE]>>
             ELSE NoValue

\* _generate_dissent_analysis: None, or the summary: the spread it states and
\* whether the sentence naming the Prosecutor is appended
GenerateDissentAnalysis(ops) ==
    IF Len(ops) < 2 THEN NoValue
    ELSE LET spread == MaxOf(Scores(ops)) - MinOf(Scores(ops))
             p == FirstBy(ops, "Prosecutor")
             d == FirstBy(ops, "Defense")
         IN  IF spread >= 2
             THEN <<[spread |-> spread,
                     prosecutor_flagged |->
                         (p # <<>> /\ d # <<>> /\ p[1].score < d[1].score)]>>
             ELSE NoValue

\* Mutant of SelectSeq2: the opinions are not filtered by dimension
SelectSeq2_Unfiltered(ops, cid) == ops

RECURSIVE SelectSeq2(_, _)
\* [op for op in opinions if op.criterion_id == dim.id]
SelectSeq2(ops, cid) ==
    IF ops = <<>> THEN <<>>
    ELSE (IF Head(ops).criterion_id = cid THEN <<Head(ops)>> ELSE <<>>)
         \o SelectSeq2(Tail(ops), cid)

RECURSIVE NotFound(_)
\* [e for e in all_evidences if e.found is False]
NotFound(evs) ==
    IF evs = <<>> THEN <<>>
    ELSE (IF ~Head(evs).found THEN <<Head(evs)>> ELSE <<>>) \o NotFound(Tail(evs))

\* Mutant of RelevantLocations: the locations are made distinct before the
\* first three are taken
RelevantLocations_DedupFirst(evs) ==
    LET rel == NotFound(evs)
        Seen(i) == {rel[k].location : k \in 1..i}
    IN  {rel[i].location : i \in {k \in 1..Len(rel) : Cardinality(Seen(k)) <= 3}}

\* set(e.location for e in relevant_evidence[:3])
RelevantLocations(evs) ==
    LET rel == NotFound(evs)
    IN  {rel[i].location : i \in 1..Min2(3, Len(rel))}

\* list(set(...)): the orders in which a set of strings can be iterated.  The
\* order follows the strings' hashes, which are seeded per interpreter
\* process; it is the same for every set built within one process.
IterationOrders(S) ==
    {f \in [1..Cardinality(S) -> S] : \A x \in S : \E i \in DOMAIN f : f[i] = x}

\* remediation: ", ".join(list(set(...))) as the sequence of joined locations,
\* or the text "No critical issues found." when relevant_evidence is empty
Remediation(evs, order) ==
    IF NotFound(evs) = <<>> THEN [issues |-> FALSE, locations |-> <<>>]
    ELSE [issues |-> TRUE, locations |-> order]

CriterionResult(dim, ops, evs, order) ==
    LET rel == SelectSeq2(ops, dim)
    IN  [dimension_id |-> dim,
         final_score |-> ComputeWeightedScore(rel),
         judge_opinions |-> rel,
         dissent_summary |-> GenerateDissentAnalysis(rel),
         remediation |-> Remediation(evs, order)]

RECURSIVE SumFinal(_)
SumFinal(cs) == IF cs = <<>> THEN 0 ELSE Head(cs).final_score + SumFinal(Tail(cs))

\* Mutant of OverallScore100: the mean is cut to two decimals, not rounded
OverallScore100_Cut(cs) ==
    IF cs = <<>> THEN 100 ELSE (100 * SumFinal(cs)) \div Len(cs)

\* round(overall_avg, 2) in hundredths; 1.0 when there are no criteria
OverallScore100(cs) ==
    IF cs = <<>> THEN 100 ELSE Round(100 * SumFinal(cs), Len(cs))

\* Mutant of SynthesizeReport: the summary counts only the opinions that match
\* a configured dimension
SynthesizeReport_CountsMatched(url, dims, evmap, ops, order) ==
    LET all_evidences == Flatten(evmap)
        criteria == [i \in 1..Len(dims) |->
                        CriterionResult(dims[i], ops, all_evidences, order)]
        Matched(o) == \E i \in 1..Len(dims) : dims[i] = o.criterion_id
    IN  [repo_url |-> IF url # None THEN url ELSE "Local Scan",
         n_evidence |-> Len(all_evidences),
         n_opinions |-> Len(SelectSeq(ops, Matched)),
         overall_score100 |-> OverallScore100(criteria),
         criteria |-> criteria]

\* synthesize_report
SynthesizeReport(url, dims, evmap, ops, order) ==
    LET all_evidences == Flatten(evmap)
        criteria == [i \in 1..Len(dims) |->
                        CriterionResult(dims[i], ops, all_evidences, order)]
    IN  [repo_url |-> IF url # None THEN url ELSE "Local Scan",
         n_evidence |-> Len(all_evidences),
         n_opinions |-> Len(ops),
         overall_score100 |-> OverallScore100(criteria),
         criteria |-> criteria]

\* The reports synthesize_report can produce from the current state, one per
\* iteration order of the location set
ChiefOutcomes ==
    {SynthesizeReport(repo_url, rubric_dimensions, evidences, opinions, order) :
        order \in IterationOrders(RelevantLocations(Flatten(evidences)))}

\* Mutant of ChiefJusticeNode: the node is scheduled a second time
ChiefJusticeNode_Twice ==
    /\ pc = "chief"
    /\ chief_starts' = chief_starts + 1
    /\ \E report \in ChiefOutcomes : final_report' = <<report>>
    /\ pc' = IF chief_starts = 0 THEN "chief" ELSE "end"
    /\ UNCHANGED <<inputs, serial_vars, collector_vars, evidences, route, flat_evidences,
                   judge_vars, opinions>>

\* chief_justice_node: ChiefJusticeNode(state).run()
ChiefJusticeNode ==
    /\ pc = "chief"
    /\ chief_starts' = chief_starts + 1
    /\ \E report \in ChiefOutcomes : final_report' = <<report>>
    /\ pc' = "end"
    /\ UNCHANGED <<inputs, serial_vars, collector_vars, evidences, route, flat_evidences,
                   judge_vars, opinions>>

(***************************************************************************)
(* The graph                                                               *)
(***************************************************************************)
Next ==
    \/ LoadRubric
    \/ DetectivesNode
    \/ CollectRepo
    \/ CollectDoc
    \/ CollectVision
    \/ MergeDetectives
    \/ RouteAfterDetectives
    \/ AggregateEvidenceNode
    \/ \E node \in Stances : JudgeConstruct(node)
    \/ \E node \in Stances : StructuredCall(node)
    \/ \E node \in Stances : PlainCall(node)
    \/ JudgesBarrier
    \/ ChiefJusticeNode

Spec == Init /\ [][Next]_vars

\* Every call to an external collaborator eventually returns or fails, and the
\* graph engine and the event loop run every task that is ready
FairSpec == Spec /\ WF_vars(Next)

(***************************************************************************)
(* run_judges (judges.py): the generators one after the other.  It is run  *)
(* on the evidence of a finished generator stage of the graph, and each    *)
(* review_evidence call gives the answer the same judge gave in the graph. *)
(***************************************************************************)
\* judges = [Prosecutor(state), Defense(state), TechLead(state)]
JudgeOrder == <<"Prosecutor", "Defense", "TechLead">>

\* what review_evidence returned for the judge of this stance
AnswerOf(node) ==
    returned[CHOOSE i \in 1..Len(returned) : returned[i].node = node].opinion

\* run_judges up to its loop: the three judges are constructed
RunJudgesStart ==
    /\ pc \in {"chief", "end"}
    /\ Len(returned) = 3
    /\ serial_pc = 0
    /\ serial_pc' = 1
    /\ serial_opinions' = <<>>
    /\ UNCHANGED <<inputs, pc, collector_vars, evidences, route, flat_evidences,
                   judge_vars, opinions, chief_starts, final_report>>

\* one turn of the loop: review_evidence, state.opinions.append(opinion), sleep
RunJudgesStep ==
    /\ serial_pc \in 1..Len(JudgeOrder)
    /\ serial_opinions' = Append(serial_opinions, AnswerOf(JudgeOrder[serial_pc]))
    /\ serial_pc' = serial_pc + 1
    /\ UNCHANGED <<inputs, pc, collector_vars, evidences, route, flat_evidences,
                   judge_vars, opinions, chief_starts, final_report>>

\* one run of the graph followed by run_judges, with every collaborator
\* available and a rubric of one dimension
InitSerial ==
    /\ Init
    /\ rubric_file = [kind |-> "dimensions", dimensions |-> <<"D1">>]
    /\ repo_url = "repo"
    /\ pdf_path = "report.pdf"
    /\ env = [repo |-> [clone |-> "ok", history |-> "commits", scan |-> "found"],
              doc |-> [pdf_exists |-> TRUE, hits |-> TRUE, paths |-> FALSE],
              images |-> TRUE, llm_ok |-> TRUE]

NextSerial ==
    \/ Next
    \/ RunJudgesStart
    \/ RunJudgesStep

SpecSerial == InitSerial /\ [][NextSerial]_vars

(***************************************************************************)
(* EvidenceAggregator (aggregator.py): aggregate(detective_tasks,          *)
(* judge_tasks) on an agent_state whose evidences and opinions are lists.  *)
(* The tasks were created by the caller and run on the event loop on their *)
(* own; each finishes with a result or with an exception, in any order.    *)
(* Here dst and jst are the tasks' states, results the detective tasks'    *)
(* results, returned the log of all results in the order the tasks         *)
(* finished, and pc the position inside aggregate.                         *)
(***************************************************************************)
DetectiveTasks == <<"RepoInvestigator", "DocAnalyst", "VisionInspector">>
JudgeTasks == <<"Prosecutor", "Defense", "TechLead">>

\* what a detective task returns: a list of evidence, possibly empty
TaskEvidence(c) ==
    CASE c = "RepoInvestigator" ->
            {RepoEvidence("repo", [clone |-> "ok", history |-> "commits", scan |-> "found"])}
      [] c = "DocAnalyst" ->
            {<<>>, DocEvidence("report.pdf", [pdf_exists |-> FALSE, hits |-> FALSE, paths |-> FALSE])}
      [] c = "VisionInspector" -> {VisionEvidence(TRUE)}

\* what a judge task returns: one opinion, or a list of opinions
TaskOpinions(node) ==
    {<<Opinion(node, "D1", 5, "llm", <<"ev">>)>>,
     <<Opinion(node, "D1", 2, "llm", <<>>), Opinion(node, "D2", 3, "llm", <<>>)>>}

\* the result a finished task left, from the log
ResultOf(task) ==
    returned[CHOOSE i \in 1..Len(returned) : returned[i].node = task].opinion

\* a detective task finishes: with its evidence list, or with an exception
DetectiveTaskEnds(c) ==
    /\ pc \in {"collect_evidence", "collect_opinions", "returned", "aborted"}
    /\ route = "aggregate"
    /\ dst[c] = "pending"
    /\ \/ \E out \in TaskEvidence(c) :
             /\ dst' = [dst EXCEPT ![c] = "done"]
             /\ results' = [results EXCEPT ![c] = out]
             /\ returned' = Append(returned, [node |-> c, opinion |-> out])
       \/ /\ dst' = [dst EXCEPT ![c] = "raised"]
          /\ UNCHANGED <<results, returned>>
    /\ UNCHANGED <<inputs, serial_vars, pc, writes, evidences, route, flat_evidences,
                   jst, attempts, received, opinions, chief_starts, final_report>>

\* a judge task finishes: with its opinion or opinions, or with an exception
JudgeTaskEnds(node) ==
    /\ pc \in {"collect_evidence", "collect_opinions", "returned", "aborted"}
    /\ route = "aggregate"
    /\ jst[node] = "ready"
    /\ \/ \E out \in TaskOpinions(node) :
             /\ jst' = [jst EXCEPT ![node] = "done"]
             /\ returned' = Append(returned, [node |-> node, opinion |-> out])
       \/ /\ jst' = [jst EXCEPT ![node] = "raised"]
          /\ returned' = returned
    /\ UNCHANGED <<inputs, serial_vars, pc, collector_vars, evidences, route,
                   flat_evidences, attempts, received, opinions, chief_starts,
                   final_report>>

RECURSIVE InFinishOrder(_, _)
\* Mutant of InTaskOrder: the results in the order the tasks finished
InFinishOrder(tasks, log) ==
    IF log = <<>> THEN <<>>
    ELSE (IF \E k \in 1..Len(tasks) : tasks[k] = Head(log).node
          THEN Head(log).opinion ELSE <<>>)
         \o InFinishOrder(tasks, Tail(log))

RECURSIVE InTaskOrder(_, _)
\* completed = await asyncio.gather(*tasks), flattened: the results in the
\* order of the task list
InTaskOrder(tasks, log) ==
    IF tasks = <<>> THEN <<>>
    ELSE LET i == CHOOSE k \in 1..Len(log) : log[k].node = Head(tasks)
         IN  log[i].opinion \o InTaskOrder(Tail(tasks), log)

\* collect_evidence: the gather raises as soon as one task raised; it returns
\* when every task is done, and the results are appended to the evidences
CollectEvidence ==
    /\ pc = "collect_evidence"
    /\ IF \E c \in Collectors : dst[c] = "raised"
       THEN /\ pc' = "aborted"
            /\ evidences' = evidences
       ELSE /\ \A c \in Collectors : dst[c] = "done"
            /\ evidences' = evidences \o InTaskOrder(DetectiveTasks, returned)
            /\ pc' = "collect_opinions"
    /\ UNCHANGED <<inputs, serial_vars, collector_vars, route, flat_evidences,
                   judge_vars, opinions, chief_starts, final_report>>

\* collect_opinions, then aggregate returns the two lists
CollectOpinions ==
    /\ pc = "collect_opinions"
    /\ IF \E node \in Stances : jst[node] = "raised"
       THEN /\ pc' = "aborted"
            /\ opinions' = opinions
       ELSE /\ \A node \in Stances : jst[node] = "done"
            /\ opinions' = opinions \o InTaskOrder(JudgeTasks, returned)
            /\ pc' = "returned"
    /\ UNCHANGED <<inputs, serial_vars, collector_vars, evidences, route,
                   flat_evidences, judge_vars, chief_starts, final_report>>

InitFanIn ==
    /\ rubric_file = [kind |-> "dimensions", dimensions |-> <<"D1", "D2">>]
    /\ repo_url = "repo"
    /\ pdf_path = "report.pdf"
    /\ rubric_dimensions = <<"D1", "D2">>
    /\ env = [repo |-> [clone |-> "ok", history |-> "commits", scan |-> "found"],
              doc |-> [pdf_exists |-> FALSE, hits |-> FALSE, paths |-> FALSE],
              images |-> TRUE, llm_ok |-> TRUE]
    /\ pc = "collect_evidence"
    /\ dst = [c \in Collectors |-> "pending"]
    /\ results = [c \in Collectors |-> <<>>]
    /\ writes = {}
    /\ evidences = <<>>
    /\ route = "aggregate"
    /\ flat_evidences = <<>>
    /\ jst = [j \in Stances |-> "ready"]
    /\ attempts = [j \in Stances |-> 0]
    /\ returned = <<>>
    /\ received = [j \in Stances |-> <<>>]
    /\ serial_pc = 0
    /\ serial_opinions = <<>>
    /\ opinions = <<>>
    /\ chief_starts = 0
    /\ final_report = <<>>

NextFanIn ==
    \/ \E c \in Collectors : DetectiveTaskEnds(c)
    \/ \E node \in Stances : JudgeTaskEnds(node)
    \/ CollectEvidence
    \/ CollectOpinions

SpecFanIn == InitFanIn /\ [][NextFanIn]_vars

(***************************************************************************)
(* The Aggregator on its own: ChiefJusticeNode(state).run() on a state     *)
(* built directly, with any opinions sequence the JudicialOpinion schema   *)
(* admits (any stance, any score in 1..5, any criterion_id, any number of  *)
(* opinions), as the generators' completion service may produce them.      *)
(***************************************************************************)
\* the opinions a state may be built from: every stance and score for D1, one
\* opinion for D2 and one for the criterion_id the prompt's schema example names
AggOpinions ==
    {Opinion(jd, "D1", sc, "llm", <<>>) : jd \in Stances, sc \in 1..5}
    \cup {Opinion("Defense", "D2", 4, "llm", <<>>),
          Opinion("Prosecutor", "architecture_audit", 2, "llm", <<>>)}

OpinionSeqs == UNION {[1..n -> AggOpinions] : n \in 0..MaxOps}

\* evidence maps as the collectors leave them: nothing missing, or two missing
\* items at different locations
AggEvidences ==
    {[repo_investigator |->
        <<Evidence("vision_inspection", TRUE, "image_dir",
                   "Found image(s) and performed placeholder analysis")>>],
     [repo_investigator |->
        <<Evidence("git_forensic_analysis", FALSE, "repo_path",
                   "Failed to extract git history"),
          Evidence("doc_parsing", FALSE, "pdf_path", "PDF not found")>>]}

InitAgg ==
    /\ repo_url = "repo"
    /\ pdf_path = None
    /\ rubric_dimensions \in {SubSeq(DimIds, 1, n) : n \in 0..MaxAggDims}
    /\ rubric_file = [kind |-> "dimensions", dimensions |-> rubric_dimensions]
    /\ env = [repo |-> [clone |-> "ok", history |-> "commits", scan |-> "found"],
              doc |-> [pdf_exists |-> FALSE, hits |-> FALSE, paths |-> FALSE],
              images |-> TRUE, llm_ok |-> TRUE]
    /\ pc = "chief"
    /\ dst = [c \in Collectors |-> "done"]
    /\ results = [c \in Collectors |-> <<>>]
    /\ writes = {}
    /\ evidences \in AggEvidences
    /\ route = "EvidenceAggregator"
    /\ flat_evidences = Flatten(evidences)
    /\ jst = [j \in Stances |-> "done"]
    /\ attempts = [j \in Stances |-> 0]
    /\ returned = <<>>
    /\ received = [j \in Stances |-> <<flat_evidences>>]
    /\ serial_pc = 0
    /\ serial_opinions = <<>>
    /\ opinions \in OpinionSeqs
    /\ chief_starts = 0
    /\ final_report = <<>>

NextAgg == ChiefJusticeNode

SpecAgg == InitAgg /\ [][NextAgg]_vars

(***************************************************************************)
(* Properties                                                              *)
(***************************************************************************)
AllCollectorsDone == \A c \in Collectors : dst[c] = "done"
AllGeneratorsDone == \A node \in Stances : jst[node] = "done"
GeneratorStarted == \E node \in Stances : jst[node] # "idle"
AfterCollectorStage == pc \notin {"import", "fatal", "start", "detectives"}
ReturnedNodes == {returned[i].node : i \in 1..Len(returned)}

\* What each bucket holds when the collectors are run one after another
SequentialBucket(k) ==
    CASE k = "repo_investigator" -> RepoEvidence(repo_url, env.repo)
      [] k = "doc_analyst"       -> DocEvidence(pdf_path, env.doc)
      [] k = "vision_inspector"  -> VisionEvidence(env.images)

\* C1: In a run that does not take the early exit, ChiefJustice starts exactly
\* once, and only when the three generators have all returned and their three
\* opinions are in the opinions sequence; never on one or two opinions.
C1_ChiefAfterFullFanIn ==
    /\ chief_starts <= 1
    /\ (pc = "chief" \/ chief_starts = 1) =>
          /\ AllGeneratorsDone
          /\ Len(opinions) = 3
          /\ opinions = WritesOf(returned)
    /\ pc = "chief" => chief_starts = 0
    /\ (pc = "end" /\ route # "END") => chief_starts = 1

C1_Witness ==
    /\ pc = "end"
    /\ route = "EvidenceAggregator"
    /\ chief_starts = 1
    /\ Len(opinions) = 3

\* C2: No generator starts before every collector has returned, the results
\* are merged into the evidence map and the evidence is flattened.
C2_GeneratorsAfterCollectors ==
    GeneratorStarted =>
        /\ AllCollectorsDone
        /\ evidences = [k \in Buckets |-> results[CollectorOf(k)]]
        /\ flat_evidences = Flatten(evidences)
        /\ Len(flat_evidences) = TotalEvidence(evidences)
        /\ route = "EvidenceAggregator"

C2_Witness ==
    /\ pc = "judges"
    /\ \E node \in Stances : jst[node] = "ready"
    /\ \E node \in Stances : jst[node] = "idle"
    /\ AllCollectorsDone

\* C3: With a total evidence count of 0 after the collector stage the run ends
\* and no generator and no ChiefJustice is ever invoked; with a total above 0
\* the run goes on to the flatten step and the generators.
C3_EarlyExitIffNoEvidence ==
    /\ (AfterCollectorStage /\ pc # "route") =>
          route = (IF TotalEvidence(evidences) = 0 THEN "END" ELSE "EvidenceAggregator")
    /\ route = "END" =>
          /\ pc = "end"
          /\ ~GeneratorStarted
          /\ \A node \in Stances : attempts[node] = 0
          /\ chief_starts = 0
    /\ route = "EvidenceAggregator" => pc \in {"flatten", "judges", "chief", "end", "aborted"}
    /\ pc \in {"judges", "chief"} => flat_evidences = Flatten(evidences)

C3_Witness ==
    /\ route = "END"
    /\ pc = "end"
    /\ TotalEvidence(evidences) = 0
    /\ ~GeneratorStarted

\* C4: Every run that ends has a report in its final state: a minimal report on
\* the empty-evidence early exit, the Aggregator's report otherwise.
C4_ReportAtEnd == pc = "end" => final_report # <<>>

\* C5: Whatever the order in which the three collectors return, the evidence
\* map at the end of the collector stage has exactly the three buckets, each
\* holding what its collector returns, as when they are run one after another.
C5_MergeOrderIndependent ==
    (AfterCollectorStage /\ AllCollectorsDone) =>
        /\ DOMAIN evidences = Buckets
        /\ \A k \in Buckets : evidences[k] = results[CollectorOf(k)]
        /\ \A k \in Buckets : evidences[k] = SequentialBucket(k)

C5_Witness ==
    /\ pc = "route"
    /\ AllCollectorsDone
    /\ DOMAIN evidences = Buckets
    /\ Len(evidences["repo_investigator"]) = 3
    /\ Len(evidences["doc_analyst"]) = 2

\* C6: During the collector stage each collector writes only to its own key of
\* the evidence map.
C6_OwnKeyOnly == \A w \in writes : w[2] = BucketOf(w[1])

\* The internal failures a collector met in this run
Failures(c) ==
    CASE c = "RepoInvestigator" ->
           IF repo_url = None THEN {}
           ELSE IF env.repo.clone = "fail" THEN {"clone"}
           ELSE (IF env.repo.history = "fail" THEN {"history"} ELSE {})
                \cup (IF env.repo.scan = "fail" THEN {"scan"} ELSE {})
      [] c = "DocAnalyst" ->
           IF pdf_path # None /\ ~env.doc.pdf_exists THEN {"missing_document"} ELSE {}
      [] c = "VisionInspector" -> {}

\* The rationales in the source that explain a failure (none names a failed scan)
Explaining(f) ==
    CASE f = "clone"            -> {"Clone failed"}
      [] f = "history"          -> {"Failed to extract git history"}
      [] f = "missing_document" -> {"PDF not found"}
      [] f = "scan"             -> {}

\* C7: Each internal failure of a collector is represented in its output by
\* exactly one record with found = false whose rationale explains the failure.
C7_OneRecordPerFailure ==
    \A c \in Collectors :
        dst[c] = "done" =>
            \A f \in Failures(c) :
                Cardinality({i \in 1..Len(results[c]) :
                                /\ ~results[c][i].found
                                /\ results[c][i].rationale \in Explaining(f)}) = 1

\* C8: After the collector stage of any run, also one given neither input,
\* every collector's bucket is in the evidence map and is not empty.
C8_EveryBucketNonEmpty ==
    AfterCollectorStage =>
        \A k \in Buckets : k \in DOMAIN evidences /\ Len(evidences[k]) >= 1

\* C9: Each generator returns exactly one opinion, whether the completion
\* service succeeds or fails, so the opinions sequence holds exactly three
\* records when the generator stage is over, whatever the order of return.
C9_OneOpinionPerGenerator ==
    /\ \A node \in Stances : jst[node] # "fallback_raised"
    /\ Len(returned) = Cardinality(ReturnedNodes)
    /\ ReturnedNodes = {node \in Stances : jst[node] = "done"}
    /\ pc \in {"chief", "end"} /\ route # "END" =>
          /\ Len(opinions) = 3
          /\ \A i \in 1..3 : opinions[i] = returned[i].opinion
    /\ pc \in {"import", "fatal", "start", "detectives", "route", "flatten", "judges"}
          => opinions = <<>>

\* C10: A generator returns the fallback only after exactly two
\* completion-service attempts, and never makes a third.
C10_FallbackAfterOneRetry ==
    /\ \A node \in Stances : attempts[node] <= 2
    /\ \A node \in Stances : jst[node] = "fallback_raised" => attempts[node] = 2
    /\ \A i \in 1..Len(returned) :
          returned[i].opinion.argument = "Technical Limit" =>
              attempts[returned[i].node] = 2

\* C11: The fallback record is deterministic and valid: score 3, no cited
\* evidence, judge the generator's own stance, criterion_id the first rubric
\* dimension or the sentinel; and constructing it never fails.
C11_FallbackValid ==
    /\ \A node \in Stances : jst[node] # "fallback_raised"
    /\ \A i \in 1..Len(returned) :
          returned[i].opinion.argument = "Technical Limit" =>
              /\ returned[i].opinion.score = 3
              /\ returned[i].opinion.cited_evidence = <<>>
              /\ returned[i].opinion.judge = returned[i].node
              /\ returned[i].opinion.criterion_id =
                    (IF rubric_dimensions = <<>> THEN "general_audit"
                     ELSE rubric_dimensions[1])

\* C12: No failure inside a generator task aborts the run: the failing task
\* contributes a degraded record, its siblings complete and the run reaches
\* ChiefJustice and a report.
C12_GeneratorFailureContained ==
    /\ pc # "aborted"
    /\ \A node \in Stances : jst[node] \notin {"raised", "fallback_raised"}

(***************************************************************************)
(* The Aggregator's report                                                 *)
(***************************************************************************)
\* synthesize_report has run and stored its report
Reported == pc = "end" /\ final_report # <<>>

\* the positions of the opinions given for dimension dim
Matching(dim) == {k \in 1..Len(opinions) : opinions[k].criterion_id = dim}

\* the criterion result the report holds at position i
Criterion(i) == final_report[1].criteria[i]

\* C13: For every dimension and every collection of matching opinions with
\* scores in 1..5, final_score is an integer in 1..5, and it is 1 when no
\* opinion matches the dimension.
C13_FinalScoreInRange ==
    Reported =>
        \A i \in 1..Len(rubric_dimensions) :
            /\ Criterion(i).final_score \in 1..5
            /\ Matching(rubric_dimensions[i]) = {} => Criterion(i).final_score = 1

C13_Witness ==
    /\ Reported
    /\ Len(rubric_dimensions) >= 2
    /\ Cardinality(Matching("D1")) = 3
    /\ \A k \in Matching("D1") : opinions[k].score = 5
    /\ Criterion(1).final_score = 5
    /\ Matching("D2") = {}
    /\ Criterion(2).final_score = 1

\* C14: For a non-empty set of matching opinions, final_score is the weighted
\* mean of their scores (weight 1.5 for TechLead, 1.0 for Prosecutor and
\* Defense) rounded to the nearest integer and kept within 1..5; scores
\* 2 (Prosecutor), 2 (Defense), 5 (TechLead) give 3.
C14_WeightedMeanRounded ==
    Reported =>
        \A i \in 1..Len(rubric_dimensions) :
            LET I == Matching(rubric_dimensions[i])
                \* weights and sums in halves
                W(k) == IF opinions[k].judge = "TechLead" THEN 3 ELSE 2
                RECURSIVE Sum(_, _)
                Sum(K, weighted) ==
                    IF K = {} THEN 0
                    ELSE LET k == CHOOSE x \in K : TRUE
                         IN  (IF weighted THEN opinions[k].score * W(k) ELSE W(k))
                             + Sum(K \ {k}, weighted)
                S == Sum(I, TRUE)
                T == Sum(I, FALSE)
                r == Criterion(i).final_score
                Dist(x) == IF x >= 0 THEN x ELSE -x
            IN  I # {} =>
                  /\ r \in 1..5
                  /\ 2 * Dist(S - r * T) <= T
                  /\ ( /\ Cardinality(I) = 3
                       /\ \E k \in I : opinions[k].judge = "Prosecutor" /\ opinions[k].score = 2
                       /\ \E k \in I : opinions[k].judge = "Defense" /\ opinions[k].score = 2
                       /\ \E k \in I : opinions[k].judge = "TechLead" /\ opinions[k].score = 5 )
                     => r = 3

C14_Witness ==
    /\ Reported
    /\ rubric_dimensions # <<>>
    /\ Len(opinions) = 3
    /\ opinions[1] = Opinion("TechLead", "D1", 5, "llm", <<>>)
    /\ opinions[2] = Opinion("Prosecutor", "D1", 2, "llm", <<>>)
    /\ opinions[3] = Opinion("Defense", "D1", 2, "llm", <<>>)
    /\ Criterion(1).final_score = 3

\* C15: For every dimension, dissent_summary is present if and only if the
\* dimension has at least 2 matching opinions and max(score) - min(score) >= 2.
C15_DissentIffSpread ==
    Reported =>
        \A i \in 1..Len(rubric_dimensions) :
            LET I == Matching(rubric_dimensions[i])
            IN  (Criterion(i).dissent_summary # NoValue)
                <=> ( /\ Cardinality(I) >= 2
                      /\ \E a \in I, b \in I : opinions[a].score - opinions[b].score >= 2 )

C15_Witness ==
    /\ Reported
    /\ Len(rubric_dimensions) >= 2
    /\ Cardinality(Matching("D1")) = 2
    /\ Criterion(1).dissent_summary # NoValue
    /\ Criterion(1).dissent_summary[1].spread = 2
    /\ Cardinality(Matching("D2")) = 1
    /\ Criterion(2).dissent_summary = NoValue

\* C16 (as amended): overall_score is the arithmetic mean of the final_score
\* values of all criteria rounded to two decimals, or 1.0 when the rubric
\* has no dimensions, and it always lies in [1.0, 5.0].
C16_OverallIsRoundedMean ==
    Reported =>
        LET n == Len(rubric_dimensions)
            RECURSIVE Total(_)
            Total(i) == IF i = 0 THEN 0 ELSE Criterion(i).final_score + Total(i - 1)
            o == final_report[1].overall_score100
            Dist(x) == IF x >= 0 THEN x ELSE -x
        IN  /\ o \in 100..500
            /\ n = 0 => o = 100
            /\ n > 0 => 2 * Dist(o * n - 100 * Total(n)) <= n

\* C16 (as stated): overall_score is the arithmetic mean of the final_score
\* values of all criteria, or 1.0 when the rubric has no dimensions, and it
\* lies in [1.0, 5.0].
C16_OverallIsExactMean ==
    Reported =>
        LET n == Len(rubric_dimensions)
            RECURSIVE Total(_)
            Total(i) == IF i = 0 THEN 0 ELSE Criterion(i).final_score + Total(i - 1)
            o == final_report[1].overall_score100
        IN  /\ o \in 100..500
            /\ n = 0 => o = 100
            /\ n > 0 => o * n = 100 * Total(n)

C16_Witness ==
    /\ Reported
    /\ Len(rubric_dimensions) = 3
    /\ Criterion(1).final_score = 3
    /\ Criterion(2).final_score = 4
    /\ Criterion(3).final_score = 1
    /\ final_report[1].overall_score100 = 267

\* the scenario of C17: rubric <<D1>> and three opinions for D1 scored
\* 1 (Prosecutor), 5 (Defense), 4 (TechLead), in any order
Scenario17 ==
    /\ rubric_dimensions = <<"D1">>
    /\ Len(opinions) = 3
    /\ \E k \in 1..3 : opinions[k] = Opinion("Prosecutor", "D1", 1, "llm", <<>>)
    /\ \E k \in 1..3 : opinions[k] = Opinion("Defense", "D1", 5, "llm", <<>>)
    /\ \E k \in 1..3 : opinions[k] = Opinion("TechLead", "D1", 4, "llm", <<>>)

\* C17: With rubric <<D1>> and opinions for D1 scored 1 (Prosecutor),
\* 5 (Defense), 4 (TechLead), the report flags dissent for D1, gives D1
\* final_score 3 and has overall_score 3.0.
C17_Scenario ==
    (Reported /\ Scenario17) =>
        /\ Len(final_report[1].criteria) = 1
        /\ Criterion(1).dissent_summary # NoValue
        /\ Criterion(1).final_score = 3
        /\ final_report[1].overall_score100 = 300

C17_Witness ==
    /\ Reported
    /\ Scenario17
    /\ opinions[1].judge = "TechLead"
    /\ Criterion(1).dissent_summary[1].spread = 4

\* C18: Two executions of synthesize_report on identical inputs produce
\* identical reports in every field, including each criterion's remediation.
C18_Deterministic ==
    pc = "chief" => Cardinality(ChiefOutcomes) = 1

\* the orders in which n opinions can arrive
Arrivals(n) == {f \in [1..n -> 1..n] : \A i \in 1..n : \E j \in 1..n : f[j] = i}

\* what the report says of the opinions ops: per dimension the final_score and
\* the dissent_summary, and the overall_score
Verdict(dims, ops) ==
    LET report == SynthesizeReport(None, dims, EmptyMap, ops, <<>>)
    IN  [scores |-> [i \in 1..Len(dims) |-> report.criteria[i].final_score],
         dissent |-> [i \in 1..Len(dims) |-> report.criteria[i].dissent_summary],
         overall |-> report.overall_score100]

\* C19: For every permutation of the opinions sequence, each dimension's
\* final_score and dissent_summary and the overall_score are the same.
C19_OrderIndependentVerdict ==
    pc = "chief" =>
        \A f \in Arrivals(Len(opinions)) :
            Verdict(rubric_dimensions, [i \in 1..Len(opinions) |-> opinions[f[i]]])
                = Verdict(rubric_dimensions, opinions)

\* C20: The report has one CriterionResult per configured dimension, in
\* configuration order, and each result's judge_opinions is exactly the
\* subsequence of opinions whose criterion_id is that dimension's id.
C20_OneResultPerDimension ==
    Reported =>
        /\ Len(final_report[1].criteria) = Len(rubric_dimensions)
        /\ \A i \in 1..Len(rubric_dimensions) :
              LET OfDimension(o) == o.criterion_id = rubric_dimensions[i]
              IN  /\ Criterion(i).dimension_id = rubric_dimensions[i]
                  /\ Criterion(i).judge_opinions = SelectSeq(opinions, OfDimension)

C20_Witness ==
    /\ Reported
    /\ Len(rubric_dimensions) = 2
    /\ Len(opinions) = 3
    /\ opinions[1].criterion_id = "D2"
    /\ opinions[2].criterion_id = "architecture_audit"
    /\ opinions[3].criterion_id = "D1"
    /\ Criterion(1).judge_opinions = <<opinions[3]>>
    /\ Criterion(2).judge_opinions = <<opinions[1]>>


\* C21: Each criterion's remediation names the locations of the evidence
\* items with found=false, deduplicated by location and at most 3 of them;
\* it states that no critical issues were found if and only if no evidence
\* item has found=false.
C21_RemediationNamesLocations ==
    Reported =>
        LET all == Flatten(evidences)
            missing == {all[k].location : k \in {j \in 1..Len(all) : ~all[j].found}}
        IN  \A i \in 1..Len(rubric_dimensions) :
                LET r == Criterion(i).remediation
                    named == {r.locations[k] : k \in 1..Len(r.locations)}
                IN  /\ r.issues <=> missing # {}
                    /\ named \subseteq missing
                    /\ Cardinality(named) = Len(r.locations)
                    /\ Cardinality(named) = Min2(3, Cardinality(missing))


\* the generator stage was entered (the route led to the flatten step)
GeneratorStageEntered ==
    route = "EvidenceAggregator" /\ pc \in {"judges", "chief", "end", "aborted"}

\* C22: All generators receive the same flattened evidence sequence, and no
\* generator invocation changes the evidence map or the flattened sequence:
\* the evidence the Aggregator observes is the evidence each generator was
\* given.
C22_SameFrozenEvidence ==
    GeneratorStageEntered =>
        LET observed == evidences["repo_investigator"] \o evidences["doc_analyst"]
                            \o evidences["vision_inspector"]
        IN  /\ DOMAIN evidences = Buckets
            /\ flat_evidences = observed
            /\ \A node \in Stances :
                  received[node] # <<>> => received[node][1] = observed
            /\ Reported => final_report[1].n_evidence = Len(observed)

C22_Witness ==
    /\ Reported
    /\ \A node \in Stances : received[node] # <<>> /\ Len(received[node][1]) >= 4
    /\ \E k \in 1..Len(flat_evidences) : flat_evidences[k].found
    /\ \E k \in 1..Len(flat_evidences) : ~flat_evidences[k].found
    /\ returned[1].node = "TechLead"

\* C23: The flatten step returns a sequence whose length is the total number
\* of evidence items in the map, ordered by collector registration order
\* (repo_investigator, doc_analyst, vision_inspector) and within a collector
\* by that collector's output order; it leaves the evidence map unchanged.
C23_FlattenInRegistrationOrder ==
    [][pc = "flatten" =>
          /\ flat_evidences' = results["RepoInvestigator"] \o results["DocAnalyst"]
                                   \o results["VisionInspector"]
          /\ Len(flat_evidences') = Len(evidences["repo_investigator"])
                                      + Len(evidences["doc_analyst"])
                                      + Len(evidences["vision_inspector"])
          /\ evidences' = evidences]_vars

C23_Witness ==
    /\ pc = "judges"
    /\ Len(results["RepoInvestigator"]) = 3
    /\ Len(results["DocAnalyst"]) = 2
    /\ Len(flat_evidences) = 6
    /\ flat_evidences[3].goal = "graph_orchestration"
    /\ flat_evidences[4].goal = "theoretical_depth"
    /\ flat_evidences[6].goal = "vision_inspection"


\* a step that leaves the evidence map and the opinions alone and writes the
\* report at most as the first and only write of the run
FrozenStep ==
    /\ evidences' = evidences
    /\ opinions' = opinions
    /\ final_report # <<>> => final_report' = final_report
    /\ chief_starts' <= 1
    /\ final_report' # final_report => chief_starts' = 1

\* C24: Once the Aggregator begins, the evidence map and the opinions
\* sequence are never modified again, and the report is written exactly once
\* per run and not changed afterwards.
C24_FrozenOnceAggregatorBegins == [][(pc \in {"chief", "end"}) => FrozenStep]_vars

C24_Witness ==
    /\ Reported
    /\ chief_starts = 1
    /\ Len(opinions) = 3
    /\ Len(final_report[1].criteria) = 2
    /\ final_report[1].criteria[1].remediation.issues

\* C25: A rubric that is missing or malformed at load time, or a rubric file
\* without a usable dimensions list, is a fatal error raised before any stage
\* runs: no collector, generator or Aggregator executes in such a run.
C25_RubricErrorsAreFatal ==
    rubric_file.kind # "dimensions" =>
        /\ pc \in {"import", "fatal"}
        /\ \A c \in Collectors : dst[c] = "pending"
        /\ \A node \in Stances : jst[node] = "idle"
        /\ chief_starts = 0

\* the stages in forward order; a run stopped by an exception is past them
StageRank(p) ==
    CASE p = "import" -> 0
      [] p = "start" -> 1
      [] p = "detectives" -> 2
      [] p = "route" -> 3
      [] p = "flatten" -> 4
      [] p = "judges" -> 5
      [] p = "chief" -> 6
      [] p = "end" -> 7
      [] p \in {"fatal", "aborted"} -> 8

\* a step never goes back to an earlier stage, the route step is the only
\* branch, and every other step leads to the next stage
ForwardStep ==
    /\ StageRank(pc') >= StageRank(pc)
    /\ (pc = "route" /\ pc' # pc) => pc' \in {"flatten", "end"}
    /\ (pc \notin {"import", "start", "route"} /\ pc' # pc /\ pc' # "aborted")
          => StageRank(pc') = StageRank(pc) + 1

\* C26: Every run terminates: the pipeline eventually reaches its end state
\* (or stops at import on a rubric configuration error), visiting the stages
\* only in forward order, none of them twice, with the early exit as the
\* only branch.
C26_ReachesEndForward ==
    /\ <>(pc \in {"end", "fatal"})
    /\ [][ForwardStep]_vars


\* the elements of a sequence
Range(s) == {s[i] : i \in 1..Len(s)}

\* C27: Running the three generators serially (run_judges) yields the same
\* set of opinions in the shared sequence as running them concurrently in
\* the graph, and in both all three opinions are present before aggregation
\* can begin.
C27_SerialSameAsConcurrent ==
    /\ pc \in {"chief", "end"} /\ route = "EvidenceAggregator" => Len(opinions) = 3
    /\ serial_pc = Len(JudgeOrder) + 1 =>
          /\ Len(serial_opinions) = 3
          /\ Len(opinions) = 3
          /\ Range(serial_opinions) = Range(opinions)
          /\ \A o \in Range(opinions) :
                Cardinality({i \in 1..3 : opinions[i] = o})
                    = Cardinality({i \in 1..3 : serial_opinions[i] = o})

C27_Witness ==
    /\ serial_pc = Len(JudgeOrder) + 1
    /\ returned[1].node = "TechLead"
    /\ returned[3].node = "Prosecutor"
    /\ opinions # serial_opinions
    /\ Cardinality(Range(opinions)) = 3


\* C28: When dissent is flagged for a dimension, the dissent note names the
\* Prosecutor as having flagged gaps that the Defense accepted if and only if
\* the dimension has both a Prosecutor opinion and a Defense opinion and the
\* Prosecutor's score is strictly lower than the Defense's score (of several
\* opinions attributed to one stance, the first); otherwise the note states
\* only the spread.
C28_DissentNamesProsecutor ==
    Reported =>
        \A i \in 1..Len(rubric_dimensions) :
            LET I == Matching(rubric_dimensions[i])
                P == {k \in I : opinions[k].judge = "Prosecutor"}
                D == {k \in I : opinions[k].judge = "Defense"}
                First(K) == CHOOSE k \in K : \A j \in K : k <= j
                note == Criterion(i).dissent_summary
            IN  note # NoValue =>
                  /\ note[1].prosecutor_flagged
                        <=> ( /\ P # {}
                              /\ D # {}
                              /\ opinions[First(P)].score < opinions[First(D)].score )
                  /\ \E a \in I, b \in I :
                        /\ note[1].spread = opinions[a].score - opinions[b].score
                        /\ \A k \in I : opinions[b].score <= opinions[k].score
                        /\ \A k \in I : opinions[k].score <= opinions[a].score

C28_Witness ==
    /\ Reported
    /\ rubric_dimensions # <<>>
    /\ Len(opinions) = 3
    /\ opinions[1] = Opinion("Defense", "D1", 4, "llm", <<>>)
    /\ opinions[2] = Opinion("TechLead", "D1", 4, "llm", <<>>)
    /\ opinions[3] = Opinion("Prosecutor", "D1", 2, "llm", <<>>)
    /\ Criterion(1).dissent_summary # NoValue
    /\ Criterion(1).dissent_summary[1].prosecutor_flagged


C30_OwnStanceOnly ==
    /\ \A i \in 1..Len(returned) : returned[i].opinion.judge = returned[i].node
    /\ (pc \in {"chief", "end"} /\ route = "EvidenceAggregator") =>
          \A stance \in Stances :
              Cardinality({i \in 1..Len(opinions) : opinions[i].judge = stance}) = 1
    /\ \A i \in 1..Len(opinions), j \in 1..Len(opinions) :
          (i # j /\ opinions[i].criterion_id = opinions[j].criterion_id)
              => opinions[i].judge # opinions[j].judge


\* an input is present: a repository reference or a document reference
InputPresent == repo_url # None \/ pdf_path # None

Halfway(ops) ==
    /\ ops # <<>>
    /\ (2 * WeightedSum2(ops)) % TotalWeight2(ops) = 0
    /\ ((2 * WeightedSum2(ops)) \div TotalWeight2(ops)) % 2 = 1

\* the opinions ops carry equal weights
EqualWeights(ops) ==
    \A i \in 1..Len(ops), j \in 1..Len(ops) : Weight2(ops[i].judge) = Weight2(ops[j].judge)

\* ops holds exactly one opinion from each of the three stances
OnePerStance(ops) ==
    /\ Len(ops) = 3
    /\ \A stance \in Stances : \E i \in 1..Len(ops) : ops[i].judge = stance

\* a halfway mean gives the even one of the two neighbouring integers
TieToEven(ops) ==
    LET lower == WeightedSum2(ops) \div TotalWeight2(ops)
        score == ComputeWeightedScore(ops)
    IN  Halfway(ops) => (score \in {lower, lower + 1} /\ score % 2 = 0)

\* C32: When the weighted mean of a dimension's scores lies exactly halfway
\* between two integers, which is possible only when the matching opinions
\* carry equal weights, final_score is the even one of the two neighbouring
\* integers; with one opinion from each of the three stances the weighted
\* mean is never exactly halfway.
C32_HalfwayTies ==
    Reported =>
        \A i \in 1..Len(rubric_dimensions) :
            LET rel == Criterion(i).judge_opinions
            IN  /\ Criterion(i).final_score = ComputeWeightedScore(rel)
                /\ TieToEven(rel)
                /\ Halfway(rel) => EqualWeights(rel)
                /\ OnePerStance(rel) => ~Halfway(rel)

\* ties go to the even neighbour, three distinct stances never tie, and a tie
\* among unequal weights needs two opinions attributed to one stance
TiesNeedRepeatedStance ==
    Reported =>
        \A i \in 1..Len(rubric_dimensions) :
            LET rel == Criterion(i).judge_opinions
            IN  /\ TieToEven(rel)
                /\ OnePerStance(rel) => ~Halfway(rel)
                /\ (Halfway(rel) /\ ~EqualWeights(rel)) =>
                      \E a \in 1..Len(rel), b \in 1..Len(rel) :
                          a # b /\ rel[a].judge = rel[b].judge


\* the found=false items of the flattened evidence, and the first three of them
FailingItems == LET Missing(e) == ~e.found IN SelectSeq(flat_evidences, Missing)
FirstThreeFailing == SubSeq(FailingItems, 1, Min2(3, Len(FailingItems)))

\* C33: The remediation is the same for every criterion of a report, and the
\* locations it names are exactly the distinct locations of the first three
\* found=false evidence items in flattened order, each named once: the
\* truncation to three comes before the removal of duplicates.
C33_RemediationFirstThree ==
    Reported =>
        \A i \in 1..Len(rubric_dimensions) :
            LET rem == Criterion(i).remediation
            IN  /\ \A j \in 1..Len(rubric_dimensions) : Criterion(j).remediation = rem
                /\ rem.issues <=> FailingItems # <<>>
                /\ Range(rem.locations) =
                      {FirstThreeFailing[k].location : k \in 1..Len(FirstThreeFailing)}
                /\ Len(rem.locations) = Cardinality(Range(rem.locations))

C33_Witness ==
    /\ Reported
    /\ Len(rubric_dimensions) = 2
    /\ Len(FailingItems) > 3
    /\ Len(Criterion(2).remediation.locations) = 1
    /\ \E k \in 1..Len(FailingItems) :
          FailingItems[k].location \notin Range(Criterion(2).remediation.locations)


\* an opinion whose criterion_id is one of the configured dimension ids
Configured(o) == o.criterion_id \in Range(rubric_dimensions)

\* the opinions sequence without the opinions that match no dimension
ConfiguredOpinions == SelectSeq(opinions, Configured)

\* C34: An opinion whose criterion_id equals no configured dimension id
\* appears in no criterion result, and every final_score, every
\* dissent_summary and the overall_score are what they would be without it;
\* the number of opinions the executive summary states still counts it.
C34_UnmatchedOpinionOnlyCounted ==
    Reported =>
        /\ \A i \in 1..Len(rubric_dimensions) :
              /\ \A k \in 1..Len(opinions) :
                    ~Configured(opinions[k]) =>
                        opinions[k] \notin Range(Criterion(i).judge_opinions)
              /\ Criterion(i).judge_opinions =
                    SelectSeq2(ConfiguredOpinions, rubric_dimensions[i])
              /\ Criterion(i).final_score =
                    Verdict(rubric_dimensions, ConfiguredOpinions).scores[i]
              /\ Criterion(i).dissent_summary =
                    Verdict(rubric_dimensions, ConfiguredOpinions).dissent[i]
        /\ final_report[1].overall_score100 =
              Verdict(rubric_dimensions, ConfiguredOpinions).overall
        /\ final_report[1].n_opinions = Len(opinions)

C34_Witness ==
    /\ Reported
    /\ Len(rubric_dimensions) = 2
    /\ Len(opinions) = 3
    /\ Len(ConfiguredOpinions) = 1
    /\ opinions[1].criterion_id = "architecture_audit"
    /\ final_report[1].n_opinions = 3
    /\ Criterion(1).final_score = 5


\* every generator returned the record of its except branch
AllFallbacks ==
    /\ Len(returned) = 3
    /\ \A i \in 1..Len(returned) :
          returned[i].opinion = Fallback(returned[i].node, rubric_dimensions)

\* what the report holds when the first dimension has three opinions with
\* score 3 and no other dimension has any
FallbackVerdict ==
    LET n == Len(rubric_dimensions)
    IN  /\ Len(Criterion(1).judge_opinions) = 3
        /\ Criterion(1).final_score = 3
        /\ Criterion(1).dissent_summary = NoValue
        /\ \A i \in 2..n :
              /\ Criterion(i).judge_opinions = <<>>
              /\ Criterion(i).final_score = 1

FallbackShaped ==
    /\ Len(rubric_dimensions) >= 1
    /\ OnePerStance(opinions)
    /\ \A k \in 1..Len(opinions) :
          opinions[k].score = 3 /\ opinions[k].criterion_id = rubric_dimensions[1]

\* the Aggregator's report on such opinions: the criteria are as C35 says and
\* the overall_score is the stated mean rounded to two decimals
FallbackShapedReport ==
    (Reported /\ FallbackShaped) =>
        /\ FallbackVerdict
        /\ final_report[1].overall_score100 =
              Round(100 * (3 + (Len(rubric_dimensions) - 1)), Len(rubric_dimensions))

=============================================================================
